---- MODULE Spec2Model ----
(***************************************************************************)
(* Model of the intelli-rover voice pipeline:                              *)
(*   orchestrator.py / llama_orchestrator.py : the utterance loop, the     *)
(*       serial telemetry reader thread, safety_allows and send_command;   *)
(*   pi_audio_stream.py : the bridge's command_server;                     *)
(*   vad_whisper_listener.py : the energy VAD loop.                        *)
(* Time is in whole seconds for telemetry and in milliseconds for audio.   *)
(* Distances are in whole centimetres.                                     *)
(***************************************************************************)
EXTENDS Integers, Sequences, FiniteSets, TLC

VARIABLES
    script,           \* which orchestrator script runs: "orchestrator" | "llama"
    ser,              \* TRUE iff the global ser is not None (port opened)
    now,              \* time.time(), seconds
    last_telemetry,   \* global dict: channel key -> stored value
    last_telem_time,  \* global float
    rpc,              \* serial_reader position
    line,             \* serial_reader local: the line just read
    data,             \* serial_reader local: the dict being built
    updSeq,           \* number of telemetry updates started so far
    telemId,          \* update that wrote last_telemetry
    timeId,           \* update that wrote last_telem_time
    pc,               \* main() position
    llm_out,          \* main local
    reply,            \* the speech of the reply as the language model gave it
    cmd,              \* main local
    allowed,          \* main local: verdict
    reason,           \* main local: verdict
    sa,               \* safety_allows locals and the updates its reads came from
    sendCalls,        \* send_command calls in the current cycle
    spoken,           \* texts handed to speech synthesis in the current cycle
    wire,             \* lines written to the actuator port in the current cycle
    esp32,            \* bridge: TRUE iff esp32 is not None
    bpc,              \* bridge: command_server position
    braw,             \* bridge: command_server local raw
    bwire,            \* bridge: lines written to the actuator port
    vad,              \* vad_whisper_listener.py state
    port,             \* TRUE iff the serial device is present and answers
    sendRet,          \* main: what the last send_command call returned
    prev_telemetry,   \* the dict last_telemetry held before the last store
    mic,              \* pi_audio_stream.py: mic_stream state
    tts               \* pi_audio_stream.py: tts_server state

vars == <<script, ser, now, last_telemetry, last_telem_time, rpc, line, data,
          updSeq, telemId, timeId, pc, llm_out, reply, cmd, allowed, reason, sa,
          sendCalls, spoken, wire, esp32, bpc, braw, bwire, vad,
                   port, sendRet, prev_telemetry, mic, tts>>

-----------------------------------------------------------------------------
(* Configuration *)

SAFETY_MIN_FRONT_CM == 15
TELEM_FRESH_TIMEOUT == 2

\* Model bounds
StartTime == 3
MaxTicks == 4
MaxUpdates == 2
MaxWire == 3

MaxTime == StartTime + MaxTicks

-----------------------------------------------------------------------------
(* Python values held in the telemetry dict *)

None == [t |-> "none", n |-> 0, s |-> ""]
Num(n) == [t |-> "num", n |-> n, s |-> ""]
NaN == [t |-> "nan", n |-> 0, s |-> ""]
Str(s) == [t |-> "str", n |-> 0, s |-> s]
ValueError == [t |-> "err", n |-> 0, s |-> ""]

\* float(v) on a text token: the number it spells, nan, or ValueError
PyFloat(tok) ==
    CASE tok = "5.0" -> Num(5)
      [] tok = "15.0" -> Num(15)
      [] tok = "20.0" -> Num(20)
      [] tok = " 20.0" -> Num(20)
      [] tok = "nan" -> NaN
      [] OTHER -> ValueError

\* float(x) on a stored value: a float is returned as is, text is parsed
PyFloatOf(x) == IF x.t = "str" THEN PyFloat(x.s) ELSE x

\* str(x) of a float, as the f-string prints it
PyFormat(x) ==
    CASE x.t = "nan" -> "nan"
      [] x.t = "num" /\ x.n = 5 -> "5.0"
      [] x.t = "num" /\ x.n = 15 -> "15.0"
      [] x.t = "num" /\ x.n = 20 -> "20.0"
      [] OTHER -> x.s

\* k.strip()
Strip(k) ==
    CASE k = " F" -> "F"
      [] k = "F " -> "F"
      [] OTHER -> k

\* s.lower()
Lower(s) ==
    CASE s = "Forward" -> "forward"
      [] s = "FORWARD" -> "forward"
      [] s = "STOP" -> "stop"
      [] OTHER -> s

EmptyDict == [k \in {} |-> None]

\* d[k] = v
DictSet(d, k, v) == (k :> v) @@ d

\* d.get(k)
DictGet(d, k) == IF k \in DOMAIN d THEN d[k] ELSE None

-----------------------------------------------------------------------------
(* Serial lines.  A line is given already cut at '|': tag is the text before *)
(* the first '|' and each field is the text between two bars; a field with   *)
(* sep = TRUE is "k:v" cut at its first ':'.                                 *)

Fld(k, v) == [sep |-> TRUE, k |-> k, v |-> v]
Raw(txt) == [sep |-> FALSE, k |-> txt, v |-> ""]
TLine(fields) == [tag |-> "T", bar |-> TRUE, fields |-> fields]

LineClear == TLine(<<Fld("F", "20.0"), Fld("L", "20.0")>>)
LineObstacle == TLine(<<Fld("F", "5.0"), Fld("L", "20.0")>>)
LineEdge == TLine(<<Fld(" F", "15.0")>>)
LineNoFront == TLine(<<Fld("L", "20.0"), Fld("R", "5.0")>>)
LineNoColon == TLine(<<Raw("F20.0")>>)
LineText == TLine(<<Fld("F", "abc")>>)
LineNaN == TLine(<<Fld("F", "nan")>>)
LineAlias == TLine(<<Fld("front", " 20.0")>>)
LineDiag == [tag |-> "boot ok", bar |-> FALSE, fields |-> <<>>]
LineEmpty == [tag |-> "", bar |-> FALSE, fields |-> <<>>]

Lines == {LineClear, LineObstacle, LineEdge, LineNoFront, LineNoColon,
          LineText, LineNaN, LineAlias, LineDiag, LineEmpty}

\* line.startswith("T|")
IsTelemetry(l) == l.tag = "T" /\ l.bar

\* the loop over parts[1:]
RECURSIVE ParseFields(_, _, _)
ParseFields(fields, i, d) ==
    IF i > Len(fields) THEN d
    ELSE LET p == fields[i]
             f == PyFloat(p.v)
         IN  IF ~p.sep THEN ParseFields(fields, i + 1, d)
             ELSE ParseFields(fields, i + 1,
                     DictSet(d, Strip(p.k), IF f.t = "err" THEN Str(p.v) ELSE f))

ParseLine(l) == ParseFields(l.fields, 1, EmptyDict)

-----------------------------------------------------------------------------
(* Commands and language-model replies *)

CmdNone == [t |-> "none", ak |-> "missing", a |-> "", params |-> FALSE]
\* a JSON object; ak says whether "action" is a string, null or absent
CmdDict(ak, a, params) == [t |-> "dict", ak |-> ak, a |-> a, params |-> params]
\* a bare action word
CmdWord(w) == [t |-> "str", ak |-> "missing", a |-> w, params |-> FALSE]

Cmds == {CmdNone,
         CmdDict("str", "forward", TRUE),
         CmdDict("str", "Forward", TRUE),
         CmdDict("str", "turn", FALSE),
         CmdDict("str", "backward", TRUE),
         CmdDict("str", "left", TRUE),
         CmdDict("str", "right", TRUE),
         CmdDict("str", "STOP", TRUE),
         CmdDict("missing", "", TRUE),
         CmdDict("missing", "", FALSE),
         CmdDict("null", "", TRUE),
         CmdWord("forward")}

\* bool(cmd)
Truthy(c) ==
    CASE c.t = "none" -> FALSE
      [] c.t = "dict" -> c.ak # "missing" \/ c.params
      [] OTHER -> c.a # ""

Reply(speech, command) == [speech |-> speech, command |-> command]

LlmReplies == {Reply("Moving forward", CmdDict("str", "forward", TRUE)),
               Reply("Going", CmdDict("str", "Forward", TRUE)),
               Reply("Turning left", CmdDict("str", "turn", FALSE)),
               Reply("", CmdDict("str", "STOP", TRUE)),
               Reply("Hello", CmdNone),
               Reply("ok", CmdDict("missing", "", TRUE)),
               Reply("ok", CmdDict("null", "", TRUE)),
               Reply("ok", CmdWord("forward"))}

\* the reply the call returns from its except branch
LlmFallback(sc) ==
    IF sc = "orchestrator"
    THEN Reply("I could not reach the language server.", CmdNone)
    ELSE Reply("LLM server unreachable", CmdNone)

NoReply == Reply("", CmdNone)

\* json.dumps(cmd) / str(cmd)
CmdText(c) ==
    IF c.t = "dict"
    THEN "{" \o (CASE c.ak = "str" -> "\"action\": \"" \o c.a \o "\""
                   [] c.ak = "null" -> "\"action\": null"
                   [] OTHER -> "")
             \o (IF c.ak # "missing" /\ c.params THEN ", " ELSE "")
             \o (IF c.params THEN "\"params\": {}" ELSE "")
             \o "}"
    ELSE c.a

-----------------------------------------------------------------------------
(* safety_allows: the decisions it takes *)

FrontKeys == <<"F", "dist_f", "dist_front", "front">>

\* the action the check looks at: cmd.get("action", "").lower()
ActOf(c) == Lower(IF c.ak = "missing" THEN "" ELSE c.a)

\* the check applied to every action that moves the rover
ChecksTelemetry_AllMoves(act) == act \notin {"", "stop"}

\* act == "forward"
ChecksTelemetry(act) == act = "forward"

\* the freshness test skipped until a first telemetry line has been stamped
IsStale_AfterFirstLine(n, t) == t # 0 /\ (n - t) > TELEM_FRESH_TIMEOUT

\* the freshness test with >= for >
IsStale_AtTimeout(n, t) == (n - t) >= TELEM_FRESH_TIMEOUT

\* (time.time() - last_telem_time) > TELEM_FRESH_TIMEOUT
IsStale(n, t) == (n - t) > TELEM_FRESH_TIMEOUT

\* val < SAFETY_MIN_FRONT_CM on floats; any comparison with nan is False
TooClose(val) == val.t = "num" /\ val.n < SAFETY_MIN_FRONT_CM

StaleReason == "Telemetry stale"
NoFrontReason == "No front distance"
ObstacleReason(val) == "Obstacle at " \o PyFormat(val) \o " cm"

\* the tail of safety_allows once val is known
Verdict(val) ==
    IF val.t = "none" THEN <<FALSE, NoFrontReason>>
    ELSE IF TooClose(val) THEN <<FALSE, ObstacleReason(val)>>
    ELSE <<TRUE, "">>

\* the spoken text that replaces the reply on rejection
RejectSpeech(sc, r) ==
    IF sc = "orchestrator"
    THEN "Cannot perform action for safety: " \o r
    ELSE "Cannot perform action: " \o r

SaInit == [i |-> 0, tRead |-> -1, dRead |-> {}, nowRead |-> 0, done |-> FALSE]

\* send_command has not been called in this cycle
NotCalled == [t |-> "nocall", n |-> 0, s |-> ""]

-----------------------------------------------------------------------------
(* serial_reader thread and the clock *)

\* if ser is None: return
ReaderStart ==
    /\ rpc = "start"
    /\ rpc' = IF ser THEN "read" ELSE "exit"
    /\ UNCHANGED <<script, ser, now, last_telemetry, last_telem_time, line, data,
                   updSeq, telemId, timeId, pc, llm_out, reply, cmd, allowed, reason, sa,
                   sendCalls, spoken, wire, esp32, bpc, braw, bwire, vad,
                   port, sendRet, prev_telemetry, mic, tts>>

\* line = ser.readline()...; the branch on it; the parse into data
ReaderRead(l) ==
    /\ rpc = "read"
    /\ port
    /\ updSeq < MaxUpdates
    /\ line' = l
    /\ IF l = LineEmpty \/ ~IsTelemetry(l)
       THEN UNCHANGED <<rpc, data, updSeq>>
       ELSE /\ data' = ParseLine(l)
            /\ updSeq' = updSeq + 1
            /\ rpc' = "store"
    /\ UNCHANGED <<script, ser, now, last_telemetry, last_telem_time,
                   telemId, timeId, pc, llm_out, reply, cmd, allowed, reason, sa,
                   sendCalls, spoken, wire, esp32, bpc, braw, bwire, vad,
                   port, sendRet, prev_telemetry, mic, tts>>

\* the store done as an update of the dict in place: last_telemetry.update(data)
ReaderStore_Merge ==
    /\ rpc = "store"
    /\ last_telemetry' = data @@ last_telemetry
    /\ prev_telemetry' = last_telemetry
    /\ telemId' = updSeq
    /\ rpc' = "stamp"
    /\ UNCHANGED <<script, ser, now, last_telem_time, line, data, updSeq,
                   timeId, pc, llm_out, reply, cmd, allowed, reason, sa,
                   sendCalls, spoken, wire, esp32, bpc, braw, bwire, vad,
                   port, sendRet, mic, tts>>

\* last_telemetry = data
ReaderStore ==
    /\ rpc = "store"
    /\ last_telemetry' = data
    /\ prev_telemetry' = last_telemetry
    /\ telemId' = updSeq
    /\ rpc' = "stamp"
    /\ UNCHANGED <<script, ser, now, last_telem_time, line, data, updSeq,
                   timeId, pc, llm_out, reply, cmd, allowed, reason, sa,
                   sendCalls, spoken, wire, esp32, bpc, braw, bwire, vad,
                   port, sendRet, mic, tts>>

\* last_telem_time = time.time()
ReaderStamp ==
    /\ rpc = "stamp"
    /\ last_telem_time' = now
    /\ timeId' = updSeq
    /\ rpc' = "read"
    /\ line' = LineEmpty
    /\ data' = EmptyDict
    /\ UNCHANGED <<script, ser, now, last_telemetry, updSeq,
                   telemId, pc, llm_out, reply, cmd, allowed, reason, sa,
                   sendCalls, spoken, wire, esp32, bpc, braw, bwire, vad,
                   port, sendRet, prev_telemetry, mic, tts>>

\* ser.readline() raises while the device is away: except Exception, print
ReaderFail ==
    /\ rpc = "read"
    /\ ~port
    /\ rpc' = "backoff"
    /\ UNCHANGED <<script, ser, now, last_telemetry, last_telem_time, line, data,
                   updSeq, telemId, timeId, pc, llm_out, reply, cmd, allowed, reason, sa,
                   sendCalls, spoken, wire, esp32, bpc, braw, bwire, vad,
                   port, sendRet, prev_telemetry, mic, tts>>

\* time.sleep(0.5) is over: back to the top of while True, on the same ser
ReaderWake ==
    /\ rpc = "backoff"
    /\ rpc' = "read"
    /\ UNCHANGED <<script, ser, now, last_telemetry, last_telem_time, line, data,
                   updSeq, telemId, timeId, pc, llm_out, reply, cmd, allowed, reason, sa,
                   sendCalls, spoken, wire, esp32, bpc, braw, bwire, vad,
                   port, sendRet, prev_telemetry, mic, tts>>

\* the serial device is unplugged or plugged in
PortChange ==
    /\ port' = ~port
    /\ UNCHANGED <<script, ser, now, last_telemetry, last_telem_time, rpc, line, data,
                   updSeq, telemId, timeId, pc, llm_out, reply, cmd, allowed, reason, sa,
                   sendCalls, spoken, wire, esp32, bpc, braw, bwire, vad,
                   sendRet, prev_telemetry, mic, tts>>

Tick ==
    /\ now < MaxTime
    /\ now' = now + 1
    /\ UNCHANGED <<script, ser, last_telemetry, last_telem_time, rpc, line, data,
                   updSeq, telemId, timeId, pc, llm_out, reply, cmd, allowed, reason, sa,
                   sendCalls, spoken, wire, esp32, bpc, braw, bwire, vad,
                   port, sendRet, prev_telemetry, mic, tts>>

-----------------------------------------------------------------------------
(* main(): one utterance cycle *)

Running == pc \notin {"stopped", "raised_safety_allows", "raised_tts"}

telemetryVars == <<last_telemetry, last_telem_time, line, data, updSeq, telemId, timeId,
                   prev_telemetry>>
bridgeVars == <<esp32, bpc, braw, bwire>>
fixedVars == <<script, ser, now, bridgeVars, vad, port, mic, tts>>

\* record_wav(); a failure is caught and the loop continues
Record(ok) ==
    /\ pc = "record"
    /\ pc' = IF ok THEN "stt" ELSE "record"
    /\ UNCHANGED <<telemetryVars, fixedVars, rpc, llm_out, reply, cmd, allowed, reason, sa,
                   sendCalls, spoken, wire, sendRet>>

\* transcript = deepgram_stt_file_upload(); "" on any failure
Stt(heard) ==
    /\ pc = "stt"
    /\ pc' = IF heard THEN "llm" ELSE "record"
    /\ UNCHANGED <<telemetryVars, fixedVars, rpc, llm_out, reply, cmd, allowed, reason, sa,
                   sendCalls, spoken, wire, sendRet>>

\* llm_out = call_openrouter(...) / call_local_llm(...); cmd = llm_out.get("command")
Llm(r) ==
    /\ pc = "llm"
    /\ llm_out' = r
    /\ reply' = r.speech
    /\ cmd' = r.command
    /\ pc' = "safety"
    /\ UNCHANGED <<telemetryVars, fixedVars, rpc, allowed, reason, sa,
                   sendCalls, spoken, wire, sendRet>>

\* a return of safety_allows
SaReturn(v, locals) ==
    /\ allowed' = v[1]
    /\ reason' = v[2]
    /\ sa' = [locals EXCEPT !.done = TRUE]
    /\ pc' = "dispatch"

\* an exception leaves main(): only KeyboardInterrupt is caught there
Raise(where) ==
    /\ pc' = where
    /\ rpc' = "exit"

\* safety_allows up to the test on the action
SaEnter ==
    /\ pc = "safety"
    /\ IF ~Truthy(cmd)
       THEN SaReturn(<<TRUE, "">>, sa) /\ UNCHANGED rpc
       ELSE IF cmd.t # "dict" \/ cmd.ak = "null"
       THEN Raise("raised_safety_allows") /\ UNCHANGED <<allowed, reason, sa>>
       ELSE IF ChecksTelemetry(ActOf(cmd))
       THEN pc' = "sa_time" /\ UNCHANGED <<allowed, reason, sa, rpc>>
       ELSE SaReturn(<<TRUE, "">>, sa) /\ UNCHANGED rpc
    /\ UNCHANGED <<telemetryVars, fixedVars, llm_out, reply, cmd,
                   sendCalls, spoken, wire, sendRet>>

\* the freshness test
SaTime ==
    /\ pc = "sa_time"
    /\ LET locals == [sa EXCEPT !.tRead = timeId, !.nowRead = now, !.i = 1]
       IN  IF IsStale(now, last_telem_time)
           THEN SaReturn(<<FALSE, StaleReason>>, locals)
           ELSE /\ pc' = IF script = "orchestrator" THEN "sa_in" ELSE "sa_get"
                /\ sa' = locals
                /\ UNCHANGED <<allowed, reason>>
    /\ UNCHANGED <<telemetryVars, fixedVars, rpc, llm_out, reply, cmd,
                   sendCalls, spoken, wire, sendRet>>

\* the for loop moves to its next key, or ends with val None
SaNextKey ==
    IF sa.i < Len(FrontKeys)
    THEN /\ pc' = "sa_in"
         /\ sa' = [sa EXCEPT !.i = sa.i + 1, !.dRead = sa.dRead \cup {telemId}]
         /\ UNCHANGED <<allowed, reason>>
    ELSE SaReturn(Verdict(None), [sa EXCEPT !.dRead = sa.dRead \cup {telemId}])

\* orchestrator.py: if k in last_telemetry
SaIn ==
    /\ pc = "sa_in"
    /\ IF FrontKeys[sa.i] \in DOMAIN last_telemetry
       THEN /\ pc' = "sa_idx"
            /\ sa' = [sa EXCEPT !.dRead = sa.dRead \cup {telemId}]
            /\ UNCHANGED <<allowed, reason>>
       ELSE SaNextKey
    /\ UNCHANGED <<telemetryVars, fixedVars, rpc, llm_out, reply, cmd,
                   sendCalls, spoken, wire, sendRet>>

\* orchestrator.py: val = float(last_telemetry[k]); break / except: pass
SaIdx ==
    /\ pc = "sa_idx"
    /\ LET k == FrontKeys[sa.i]
           v == IF k \in DOMAIN last_telemetry
                THEN PyFloatOf(last_telemetry[k]) ELSE ValueError
       IN  IF v.t = "err"
           THEN SaNextKey
           ELSE SaReturn(Verdict(v), [sa EXCEPT !.dRead = sa.dRead \cup {telemId}])
    /\ UNCHANGED <<telemetryVars, fixedVars, rpc, llm_out, reply, cmd,
                   sendCalls, spoken, wire, sendRet>>

\* llama_orchestrator.py: val = last_telemetry.get("F") and the tests on it
SaGet ==
    /\ pc = "sa_get"
    /\ LET val == DictGet(last_telemetry, "F")
           locals == [sa EXCEPT !.dRead = sa.dRead \cup {telemId}]
       IN  IF val.t = "str"
           THEN Raise("raised_safety_allows") /\ sa' = locals /\ UNCHANGED <<allowed, reason>>
           ELSE SaReturn(Verdict(val), locals) /\ UNCHANGED rpc
    /\ UNCHANGED <<telemetryVars, fixedVars, llm_out, reply, cmd,
                   sendCalls, spoken, wire, sendRet>>


\* a write on the actuator port: who wrote, the line, and the verdict the
\* writer held for it ("none" when the writer never asked safety_allows)
\* send_command writes inside "with serial_lock:"; command_server takes no lock
HoldsLock(by) == by = "orchestrator"

Written(by, text, interlock) ==
    [by |-> by, text |-> text, interlock |-> interlock, locked |-> HoldsLock(by)]

\* send_command: TRUE iff the line goes out (port open and the write succeeds)
SendWrites(ok) == ser /\ ok

\* send_command returning a status to its caller
SendReturn_Status(written) == IF written THEN Str("sent") ELSE Str("failed")

\* what send_command returns: every path ends in a bare return or falls off the
\* end of the function, whether the line was written or not
SendReturn(written) == None

\* if cmd: if allowed: send_command(cmd) else: llm_out["speech"] = ...
Dispatch(ok) ==
    /\ pc = "dispatch"
    /\ IF Truthy(cmd) /\ allowed
       THEN /\ sendCalls' = sendCalls + 1
            /\ IF SendWrites(ok)
               THEN wire' = Append(wire, Written("orchestrator", CmdText(cmd),
                                       IF ~sa.done THEN "none"
                                       ELSE IF allowed THEN "allowed" ELSE "rejected"))
               ELSE UNCHANGED wire
            /\ sendRet' = SendReturn(SendWrites(ok))
            /\ UNCHANGED llm_out
       ELSE /\ llm_out' = IF Truthy(cmd)
                          THEN [llm_out EXCEPT !.speech = RejectSpeech(script, reason)]
                          ELSE llm_out
            /\ UNCHANGED <<sendCalls, wire, sendRet>>
    /\ pc' = "tts"
    /\ UNCHANGED <<telemetryVars, fixedVars, rpc, reply, cmd, allowed, reason, sa, spoken>>

\* llama_orchestrator.py defines no deepgram_tts, speak_file or speak_offline
TtsDefined(sc) == sc = "orchestrator"

\* speech = llm_out.get("speech", ""); if speech: deepgram_tts / speak_file / speak_offline
Tts(ok) ==
    /\ pc = "tts"
    /\ IF llm_out.speech = ""
       THEN pc' = "done" /\ UNCHANGED <<spoken, rpc>>
       ELSE IF TtsDefined(script)
       THEN /\ spoken' = Append(spoken, llm_out.speech)
            /\ pc' = "done"
            /\ UNCHANGED rpc
       ELSE Raise("raised_tts") /\ UNCHANGED spoken
    /\ UNCHANGED <<telemetryVars, fixedVars, llm_out, reply, cmd, allowed, reason, sa,
                   sendCalls, wire, sendRet>>

\* back to the top of while True
NextCycle ==
    /\ pc = "done"
    /\ pc' = "record"
    /\ llm_out' = NoReply
    /\ reply' = ""
    /\ cmd' = CmdNone
    /\ allowed' = TRUE
    /\ reason' = ""
    /\ sa' = SaInit
    /\ sendCalls' = 0
    /\ spoken' = <<>>
    /\ wire' = <<>>
    /\ sendRet' = NotCalled
    /\ UNCHANGED <<telemetryVars, fixedVars, rpc>>

\* KeyboardInterrupt: the process ends, its daemon thread with it
Interrupt ==
    /\ Running
    /\ pc' = "stopped"
    /\ rpc' = "exit"
    /\ llm_out' = NoReply
    /\ reply' = ""
    /\ cmd' = CmdNone
    /\ allowed' = TRUE
    /\ reason' = ""
    /\ sa' = SaInit
    /\ sendCalls' = 0
    /\ spoken' = <<>>
    /\ wire' = <<>>
    /\ sendRet' = NotCalled
    /\ UNCHANGED <<telemetryVars, fixedVars>>

-----------------------------------------------------------------------------
(* pi_audio_stream.py: command_server *)

\* what one connection delivers: the raw text and what json.loads makes of it
\* ("object" with its "action", "scalar" for JSON that is no object, "invalid")
JsonCmd(text, act) == [text |-> text, json |-> "object", action |-> act]
JsonScalar(text) == [text |-> text, json |-> "scalar", action |-> ""]
BareCmd(text) == [text |-> text, json |-> "invalid", action |-> ""]

BridgeRaws == {JsonCmd("{\"mode\":\"manual\",\"action\":\"forward\"}", "forward"),
               JsonCmd("{\"mode\":\"manual\",\"action\":\"stop\"}", "stop"),
               JsonCmd("{\"mode\":\"manual\"}", ""),
               JsonScalar("5"),
               BareCmd("FORWARD"),
               BareCmd("")}

\* msg.get("action"); raw.lower() when json.loads or .get raises
BridgeAction(raw) == IF raw.json = "object" THEN raw.action ELSE Lower(raw.text)

\* conn, _ = sock.accept(); raw = conn.recv(1024).decode().strip()
BridgeAccept(raw) ==
    /\ bpc = "accept"
    /\ Len(bwire) < MaxWire
    /\ braw' = raw
    /\ bpc' = "handle"
    /\ UNCHANGED <<telemetryVars, script, ser, now, vad, port, sendRet, mic, tts, esp32, bwire, rpc, pc,
                   llm_out, reply, cmd, allowed, reason, sa, sendCalls, spoken, wire>>

\* the body of the try: parse, write to esp32; finally conn.close().
\* A failing write is not caught: it ends command_server.
BridgeHandle(ok) ==
    /\ bpc = "handle"
    /\ IF braw.text # "" /\ BridgeAction(braw) # "" /\ esp32
       THEN IF ok
            THEN /\ bwire' = Append(bwire, Written("bridge", BridgeAction(braw), "none"))
                 /\ bpc' = "accept"
            ELSE /\ bpc' = "raised"
                 /\ UNCHANGED bwire
       ELSE /\ bpc' = "accept"
            /\ UNCHANGED bwire
    /\ braw' = BareCmd("")
    /\ UNCHANGED <<telemetryVars, script, ser, now, vad, port, sendRet, mic, tts, esp32, rpc, pc,
                   llm_out, reply, cmd, allowed, reason, sa, sendCalls, spoken, wire>>

-----------------------------------------------------------------------------
(* pi_audio_stream.py: mic_stream *)

\* Model bounds
MaxMicFrames == 5
MaxConns == 3

\* conn numbers the sockets mic_stream has created; sent lists the frames that
\* went out, each with the socket it went out on; failedAt[c] is the frame whose
\* sendall raised on socket c; closed holds the sockets sock.close() was called on
MicIdle == [on |-> FALSE, mpc |-> "connect", conn |-> 0, stop |-> FALSE,
            frame |-> 0, sent |-> <<>>, failedAt |-> [c \in {} |-> 0], closed |-> {}]

fixedMic == <<script, ser, now, bridgeVars, vad, port, tts>>

\* the callback that sends whatever stop_stream says
StopSet_Ignored(m) == FALSE

\* stop_stream.is_set()
StopSet(m) == m.stop

\* sock = socket.socket(); sock.connect(...); stop_stream = threading.Event().
\* A failing connect raises into except Exception.
MicConnect(ok) ==
    /\ mic.on
    /\ mic.mpc = "connect"
    /\ mic.conn < MaxConns
    /\ mic' = [mic EXCEPT !.conn = mic.conn + 1,
                          !.stop = FALSE,
                          !.mpc = IF ok THEN "open" ELSE "sleep"]
    /\ UNCHANGED <<telemetryVars, fixedMic, rpc, pc, llm_out, reply, cmd, allowed,
                   reason, sa, sendCalls, spoken, wire, sendRet>>

\* with sd.InputStream(...): a failing open raises into except Exception
MicOpen(ok) ==
    /\ mic.on
    /\ mic.mpc = "open"
    /\ mic' = [mic EXCEPT !.mpc = IF ok THEN "stream" ELSE "sleep"]
    /\ UNCHANGED <<telemetryVars, fixedMic, rpc, pc, llm_out, reply, cmd, allowed,
                   reason, sa, sendCalls, spoken, wire, sendRet>>

\* callback(indata, ...): one captured block
MicCallback(ok) ==
    /\ mic.on
    /\ mic.mpc = "stream"
    /\ mic.frame < MaxMicFrames
    /\ ok \/ StopSet(mic) \/ mic.conn < MaxConns
    /\ LET f == mic.frame + 1
       IN  mic' = IF StopSet(mic)
                  THEN [mic EXCEPT !.frame = f]
                  ELSE IF ok
                  THEN [mic EXCEPT !.frame = f,
                                   !.sent = Append(mic.sent, [conn |-> mic.conn, frame |-> f])]
                  ELSE [mic EXCEPT !.frame = f,
                                   !.stop = TRUE,
                                   !.failedAt = (mic.conn :> f) @@ mic.failedAt]
    /\ UNCHANGED <<telemetryVars, fixedMic, rpc, pc, llm_out, reply, cmd, allowed,
                   reason, sa, sendCalls, spoken, wire, sendRet>>

\* while not stop_stream.is_set(): time.sleep(0.1) ends; the input stream closes
MicPoll ==
    /\ mic.on
    /\ mic.mpc = "stream"
    /\ mic.stop
    /\ mic' = [mic EXCEPT !.mpc = "close"]
    /\ UNCHANGED <<telemetryVars, fixedMic, rpc, pc, llm_out, reply, cmd, allowed,
                   reason, sa, sendCalls, spoken, wire, sendRet>>

\* sock.close(); back to the top of while True
MicClose ==
    /\ mic.on
    /\ mic.mpc = "close"
    /\ mic' = [mic EXCEPT !.closed = mic.closed \cup {mic.conn}, !.mpc = "connect"]
    /\ UNCHANGED <<telemetryVars, fixedMic, rpc, pc, llm_out, reply, cmd, allowed,
                   reason, sa, sendCalls, spoken, wire, sendRet>>

\* except Exception: time.sleep(1.5) is over; back to the top of while True
MicWake ==
    /\ mic.on
    /\ mic.mpc = "sleep"
    /\ mic' = [mic EXCEPT !.mpc = "connect"]
    /\ UNCHANGED <<telemetryVars, fixedMic, rpc, pc, llm_out, reply, cmd, allowed,
                   reason, sa, sendCalls, spoken, wire, sendRet>>

-----------------------------------------------------------------------------
(* pi_audio_stream.py: tts_server.  The far end sends float32 samples as a   *)
(* byte stream; byte b of the stream is byte ((b - 1) % 4) + 1 of sample     *)
(* ((b - 1) \div 4) + 1.                                                     *)

\* np.float32: bytes per sample
SAMPLE_BYTES == 4
\* conn.recv(4096)
RECV_SIZE == 4096

\* Model bounds
MaxTtsSamples == 2
MaxTtsConns == 2

MaxTtsBytes == MaxTtsSamples * SAMPLE_BYTES

\* conn counts the connections accepted and served the ones torn down; sending
\* is the number of bytes the far end has sent on the current connection and
\* rcvd the number recv has returned; played lists the samples written to the
\* output stream; early counts the connections the far end closed before the
\* end of its speech
TtsIdle == [on |-> FALSE, tpc |-> "accept", conn |-> 0, served |-> 0,
            sending |-> 0, senderClosed |-> FALSE, reset |-> FALSE,
            rcvd |-> 0, played |-> <<>>, streamOpen |-> FALSE, connOpen |-> FALSE,
            early |-> 0]

notTts == <<telemetryVars, script, ser, now, bridgeVars, vad, port, mic, rpc, pc,
            llm_out, reply, cmd, allowed, reason, sa, sendCalls, spoken, wire, sendRet>>

\* the sample that the 4 bytes from stream byte b on decode to: the sample sent
\* when b is its first byte, else a number made of parts of two samples (0)
SampleAt(b) == IF (b - 1) % SAMPLE_BYTES = 0 THEN ((b - 1) \div SAMPLE_BYTES) + 1 ELSE 0

\* np.frombuffer(data, dtype=np.float32) on the n bytes that follow stream byte
\* a: the samples, or ValueError when n is no multiple of the sample size
FromBuffer(a, n) ==
    IF n % SAMPLE_BYTES # 0 THEN ValueError
    ELSE [t |-> "samples", n |-> 0, s |-> "",
          v |-> [j \in 1..(n \div SAMPLE_BYTES) |-> SampleAt(a + (j - 1) * SAMPLE_BYTES + 1)]]

\* recv that never reports the end of the stream
EndOfStream_Never(t) == FALSE

\* conn.recv returns b"": the far end has closed and every byte has been read
EndOfStream(t) == t.senderClosed /\ ~t.reset /\ t.rcvd = t.sending

\* conn, addr = sock.accept(); stream = sd.OutputStream(...); stream.start().
\* These run outside the try: a failing output stream ends tts_server.
TtsAccept(ok) ==
    /\ tts.on
    /\ tts.tpc = "accept"
    /\ tts.conn < MaxTtsConns
    /\ tts' = IF ok
              THEN [tts EXCEPT !.tpc = "recv", !.conn = tts.conn + 1,
                               !.sending = 0, !.senderClosed = FALSE, !.reset = FALSE,
                               !.rcvd = 0, !.played = <<>>,
                               !.streamOpen = TRUE, !.connOpen = TRUE]
              ELSE [tts EXCEPT !.tpc = "raised", !.conn = tts.conn + 1, !.connOpen = TRUE]
    /\ UNCHANGED notTts

\* the far end sends n more bytes of its speech
TtsSenderSend(n) ==
    /\ tts.on
    /\ tts.tpc = "recv"
    /\ ~tts.senderClosed
    /\ tts.sending + n <= MaxTtsBytes
    /\ tts' = [tts EXCEPT !.sending = tts.sending + n]
    /\ UNCHANGED notTts

\* the far end closes the connection, in order (FIN) or with a reset
TtsSenderClose(rst) ==
    /\ tts.on
    /\ tts.tpc = "recv"
    /\ ~tts.senderClosed
    /\ tts' = [tts EXCEPT !.senderClosed = TRUE, !.reset = rst,
                          !.early = IF tts.sending < MaxTtsBytes
                                    THEN tts.early + 1 ELSE tts.early]
    /\ UNCHANGED notTts

\* data = conn.recv(4096) returns n bytes; stream.write(np.frombuffer(data))
TtsRecv(n) ==
    /\ tts.on
    /\ tts.tpc = "recv"
    /\ ~tts.reset
    /\ n <= RECV_SIZE
    /\ tts.rcvd + n <= tts.sending
    /\ LET samples == FromBuffer(tts.rcvd, n)
       IN  tts' = IF samples.t = "err"
                  THEN [tts EXCEPT !.rcvd = tts.rcvd + n, !.tpc = "teardown"]
                  ELSE [tts EXCEPT !.rcvd = tts.rcvd + n,
                                   !.played = tts.played \o samples.v]
    /\ UNCHANGED notTts

\* conn.recv returns b"" (if not data: break) or raises on a reset connection
\* (except Exception: pass): the inner loop is left
TtsRecvEnd ==
    /\ tts.on
    /\ tts.tpc = "recv"
    /\ EndOfStream(tts) \/ tts.reset
    /\ tts' = [tts EXCEPT !.tpc = "teardown"]
    /\ UNCHANGED notTts

\* stream.stop(); stream.close(); conn.close(); back to sock.accept()
TtsTeardown ==
    /\ tts.on
    /\ tts.tpc = "teardown"
    /\ tts' = [tts EXCEPT !.tpc = "accept", !.served = tts.served + 1,
                          !.streamOpen = FALSE, !.connOpen = FALSE]
    /\ UNCHANGED notTts

-----------------------------------------------------------------------------
(* vad_whisper_listener.py.  Energies are in thousandths, times in ms.      *)
(* The microphone delivers lows frames below the threshold, then highs     *)
(* frames above it, then gap frames below it, then highs2 frames above it,  *)
(* then silence; a frame is named by its capture number.                    *)

SAMPLE_RATE == 16000
BLOCK_SIZE == 1024
ENERGY_THRESHOLD_MILLI == 25
SILENCE_TIMEOUT_MS == 1200
MIN_AUDIO_MS == 700
\* queue.Queue() is built without maxsize: 0, which means no limit
QUEUE_MAXSIZE == 0

\* Model bounds
MaxFrames == 70
MaxQueue == 2
MaxHigh == 12
\* a pause inside an utterance, and one longer than SILENCE_TIMEOUT, in frames
ShortPause == 2
LongPause == 20
\* lengths of the second burst of voice, in frames
SecondBursts == {3, 11}
\* caps the properties are stated for: frames in one utterance, frames queued
MaxUtteranceFrames == 30
QueueCapacity == 1

\* one block of BLOCK_SIZE samples at SAMPLE_RATE
FRAME_MS == (BLOCK_SIZE * 1000) \div SAMPLE_RATE

VadIdle == [on |-> FALSE, lows |-> 0, highs |-> 0, gap |-> 0, highs2 |-> 0,
            fed |-> 0, clock |-> 0,
            audio_queue |-> <<>>, vpc |-> "get", speaking |-> FALSE,
            last_voice_time |-> 0, recorded_audio |-> <<>>, full_audio |-> <<>>,
            transcribed |-> <<>>, skipped |-> 0, episodes |-> 0,
            t_start |-> 0, t_end |-> 0]

\* rms_energy of frame i of the input
FrameEnergy(v, i) ==
    IF \/ i > v.lows /\ i <= v.lows + v.highs
       \/ /\ i > v.lows + v.highs + v.gap
          /\ i <= v.lows + v.highs + v.gap + v.highs2
    THEN 50 ELSE 10

\* energy > ENERGY_THRESHOLD
IsVoice(energy) == energy > ENERGY_THRESHOLD_MILLI

\* (now - last_voice_time) > SILENCE_TIMEOUT
SilenceElapsed(t, last) == (t - last) > SILENCE_TIMEOUT_MS

\* the duration test passed by every utterance
LongEnough_Always(frames) == TRUE

\* duration >= MIN_AUDIO_SEC, duration = len(full_audio) / SAMPLE_RATE
LongEnough(frames) == Len(frames) * BLOCK_SIZE * 1000 >= MIN_AUDIO_MS * SAMPLE_RATE

orchVars == <<script, ser, now, telemetryVars, rpc, pc, llm_out, reply, cmd, allowed,
              reason, sa, sendCalls, spoken, wire, port, sendRet>>

\* Queue.full(): never, for a queue without maxsize
QueueFull(q) == QUEUE_MAXSIZE > 0 /\ Len(q) >= QUEUE_MAXSIZE

\* audio_callback: one block captured, FRAME_MS after the one before;
\* audio_queue.put() waits only while the queue is full
AudioCallback ==
    /\ vad.on
    /\ vad.fed < MaxFrames
    /\ Len(vad.audio_queue) < MaxQueue
    /\ ~QueueFull(vad.audio_queue)
    /\ vad' = [vad EXCEPT !.fed = vad.fed + 1,
                          !.clock = vad.clock + FRAME_MS,
                          !.audio_queue = Append(vad.audio_queue, vad.fed + 1)]
    /\ UNCHANGED <<orchVars, bridgeVars, mic, tts>>

\* one pass of the while loop of vad_loop that got a frame
VadLoop ==
    /\ vad.on
    /\ vad.vpc = "get"
    /\ vad.audio_queue # <<>>
    /\ LET audio == Head(vad.audio_queue)
           t == vad.clock
           got == [vad EXCEPT !.audio_queue = Tail(vad.audio_queue)]
       IN  IF IsVoice(FrameEnergy(vad, audio))
           THEN vad' = IF ~vad.speaking
                       THEN [got EXCEPT !.last_voice_time = t,
                                        !.speaking = TRUE,
                                        !.recorded_audio = <<audio>>,
                                        !.episodes = vad.episodes + 1,
                                        !.t_start = t]
                       ELSE [got EXCEPT !.last_voice_time = t,
                                        !.recorded_audio = Append(vad.recorded_audio, audio)]
           ELSE IF vad.speaking /\ SilenceElapsed(t, vad.last_voice_time)
           THEN vad' = IF LongEnough(vad.recorded_audio)
                       THEN [got EXCEPT !.speaking = FALSE,
                                        !.full_audio = vad.recorded_audio,
                                        !.recorded_audio = <<>>,
                                        !.t_end = t,
                                        !.vpc = "transcribe"]
                       ELSE [got EXCEPT !.speaking = FALSE,
                                        !.recorded_audio = <<>>,
                                        !.t_end = t,
                                        !.skipped = vad.skipped + 1]
           ELSE vad' = got
    /\ UNCHANGED <<orchVars, bridgeVars, mic, tts>>

\* transcribe(full_audio) returns
Transcribe ==
    /\ vad.on
    /\ vad.vpc = "transcribe"
    /\ vad' = [vad EXCEPT !.transcribed = Append(vad.transcribed, vad.full_audio),
                          !.full_audio = <<>>,
                          !.vpc = "get"]
    /\ UNCHANGED <<orchVars, bridgeVars, mic, tts>>

-----------------------------------------------------------------------------
(* orchestrator.py / llama_orchestrator.py: main() with its reader thread *)

Init ==
    /\ script \in {"orchestrator", "llama"}
    /\ ser \in BOOLEAN
    /\ esp32 = FALSE
    /\ now = StartTime
    /\ last_telemetry = EmptyDict
    /\ last_telem_time = 0
    /\ rpc = "start"
    /\ line = LineEmpty
    /\ data = EmptyDict
    /\ updSeq = 0
    /\ telemId = 0
    /\ timeId = 0
    /\ pc = "record"
    /\ llm_out = NoReply
    /\ reply = ""
    /\ cmd = CmdNone
    /\ allowed = TRUE
    /\ reason = ""
    /\ sa = SaInit
    /\ sendCalls = 0
    /\ spoken = <<>>
    /\ wire = <<>>
    /\ bpc = "off"
    /\ braw = BareCmd("")
    /\ bwire = <<>>
    /\ vad = VadIdle
    /\ port = ser
    /\ sendRet = NotCalled
    /\ prev_telemetry = EmptyDict
    /\ mic = MicIdle
    /\ tts = TtsIdle

Next ==
    \/ ReaderStart
    \/ \E l \in Lines : ReaderRead(l)
    \/ ReaderStore
    \/ ReaderStamp
    \/ Tick
    \/ \E ok \in BOOLEAN : Record(ok)
    \/ \E heard \in BOOLEAN : Stt(heard)
    \/ \E r \in LlmReplies \cup {LlmFallback(script)} : Llm(r)
    \/ SaEnter
    \/ SaTime
    \/ SaIn
    \/ SaIdx
    \/ SaGet
    \/ \E ok \in BOOLEAN : Dispatch(ok)
    \/ \E ok \in BOOLEAN : Tts(ok)
    \/ NextCycle
    \/ Interrupt

Spec == Init /\ [][Next]_vars

-----------------------------------------------------------------------------
(* pi_audio_stream.py on its own *)

InitBridge ==
    /\ script = "orchestrator"
    /\ ser = FALSE
    /\ esp32 \in BOOLEAN
    /\ now = StartTime
    /\ last_telemetry = EmptyDict
    /\ last_telem_time = 0
    /\ rpc = "exit"
    /\ line = LineEmpty
    /\ data = EmptyDict
    /\ updSeq = 0
    /\ telemId = 0
    /\ timeId = 0
    /\ pc = "stopped"
    /\ llm_out = NoReply
    /\ reply = ""
    /\ cmd = CmdNone
    /\ allowed = TRUE
    /\ reason = ""
    /\ sa = SaInit
    /\ sendCalls = 0
    /\ spoken = <<>>
    /\ wire = <<>>
    /\ bpc = "accept"
    /\ braw = BareCmd("")
    /\ bwire = <<>>
    /\ vad = VadIdle
    /\ port = ser
    /\ sendRet = NotCalled
    /\ prev_telemetry = EmptyDict
    /\ mic = MicIdle
    /\ tts = TtsIdle

NextBridge ==
    \/ \E raw \in BridgeRaws : BridgeAccept(raw)
    \/ \E ok \in BOOLEAN : BridgeHandle(ok)

SpecBridge == InitBridge /\ [][NextBridge]_vars

-----------------------------------------------------------------------------
(* safety_allows on its own: called once on given arguments and globals *)

Readings == {ParseLine(l) : l \in {x \in Lines : IsTelemetry(x)}}

InitSafety ==
    /\ script \in {"orchestrator", "llama"}
    /\ ser = FALSE
    /\ esp32 = FALSE
    /\ now \in StartTime..MaxTime
    /\ \/ last_telemetry = EmptyDict /\ last_telem_time = 0
       \/ last_telemetry \in Readings /\ last_telem_time \in StartTime..now
    /\ rpc = "exit"
    /\ line = LineEmpty
    /\ data = EmptyDict
    /\ updSeq = 0
    /\ telemId = 0
    /\ timeId = 0
    /\ pc = "safety"
    /\ cmd \in Cmds
    /\ llm_out = Reply("", cmd)
    /\ reply = ""
    /\ allowed = TRUE
    /\ reason = ""
    /\ sa = SaInit
    /\ sendCalls = 0
    /\ spoken = <<>>
    /\ wire = <<>>
    /\ bpc = "off"
    /\ braw = BareCmd("")
    /\ bwire = <<>>
    /\ vad = VadIdle
    /\ port = ser
    /\ sendRet = NotCalled
    /\ prev_telemetry = EmptyDict
    /\ mic = MicIdle
    /\ tts = TtsIdle

NextSafety ==
    \/ SaEnter
    \/ SaTime
    \/ SaIn
    \/ SaIdx
    \/ SaGet

SpecSafety == InitSafety /\ [][NextSafety]_vars

-----------------------------------------------------------------------------
(* The serial link: open_serial at startup, the reader thread, the clock, a  *)
(* device that comes and goes, and one forward command evaluated at any time *)

ForwardCmd == CmdDict("str", "forward", TRUE)

InitTelemetry ==
    /\ script \in {"orchestrator", "llama"}
    /\ port \in BOOLEAN
    /\ ser = port
    /\ esp32 = FALSE
    /\ now = StartTime
    /\ last_telemetry = EmptyDict
    /\ last_telem_time = 0
    /\ rpc = "start"
    /\ line = LineEmpty
    /\ data = EmptyDict
    /\ updSeq = 0
    /\ telemId = 0
    /\ timeId = 0
    /\ pc = "safety"
    /\ cmd = ForwardCmd
    /\ llm_out = Reply("Moving forward", ForwardCmd)
    /\ reply = "Moving forward"
    /\ allowed = TRUE
    /\ reason = ""
    /\ sa = SaInit
    /\ sendCalls = 0
    /\ spoken = <<>>
    /\ wire = <<>>
    /\ bpc = "off"
    /\ braw = BareCmd("")
    /\ bwire = <<>>
    /\ vad = VadIdle
    /\ sendRet = NotCalled
    /\ prev_telemetry = EmptyDict
    /\ mic = MicIdle
    /\ tts = TtsIdle

ReaderNext ==
    \/ ReaderStart
    \/ \E l \in Lines : ReaderRead(l)
    \/ ReaderStore
    \/ ReaderStamp
    \/ ReaderFail
    \/ ReaderWake

NextTelemetry ==
    \/ ReaderNext
    \/ PortChange
    \/ Tick
    \/ SaEnter
    \/ SaTime
    \/ SaIn
    \/ SaIdx
    \/ SaGet

SpecTelemetry == InitTelemetry /\ [][NextTelemetry]_vars

\* the reader thread is scheduled as long as it has a step to take
SpecTelemetryFair == SpecTelemetry /\ WF_vars(ReaderNext)

-----------------------------------------------------------------------------
(* pi_audio_stream.py: the mic_stream thread on its own *)

InitMic ==
    /\ script = "orchestrator"
    /\ ser = FALSE
    /\ esp32 = FALSE
    /\ now = StartTime
    /\ last_telemetry = EmptyDict
    /\ last_telem_time = 0
    /\ rpc = "exit"
    /\ line = LineEmpty
    /\ data = EmptyDict
    /\ updSeq = 0
    /\ telemId = 0
    /\ timeId = 0
    /\ pc = "stopped"
    /\ llm_out = NoReply
    /\ reply = ""
    /\ cmd = CmdNone
    /\ allowed = TRUE
    /\ reason = ""
    /\ sa = SaInit
    /\ sendCalls = 0
    /\ spoken = <<>>
    /\ wire = <<>>
    /\ bpc = "off"
    /\ braw = BareCmd("")
    /\ bwire = <<>>
    /\ vad = VadIdle
    /\ port = ser
    /\ sendRet = NotCalled
    /\ prev_telemetry = EmptyDict
    /\ mic = [MicIdle EXCEPT !.on = TRUE]
    /\ tts = TtsIdle

\* the steps of the mic_stream thread itself, the callback apart
MicLoop ==
    \/ \E ok \in BOOLEAN : MicConnect(ok)
    \/ \E ok \in BOOLEAN : MicOpen(ok)
    \/ MicPoll
    \/ MicClose
    \/ MicWake

NextMic ==
    \/ MicLoop
    \/ \E ok \in BOOLEAN : MicCallback(ok)

SpecMic == InitMic /\ [][NextMic]_vars

\* the thread is scheduled as long as it has a step to take
SpecMicFair == SpecMic /\ WF_vars(MicLoop)

-----------------------------------------------------------------------------
(* pi_audio_stream.py: the tts_server thread and the far end of its stream *)

InitTts ==
    /\ script = "orchestrator"
    /\ ser = FALSE
    /\ esp32 = FALSE
    /\ now = StartTime
    /\ last_telemetry = EmptyDict
    /\ last_telem_time = 0
    /\ rpc = "exit"
    /\ line = LineEmpty
    /\ data = EmptyDict
    /\ updSeq = 0
    /\ telemId = 0
    /\ timeId = 0
    /\ pc = "stopped"
    /\ llm_out = NoReply
    /\ reply = ""
    /\ cmd = CmdNone
    /\ allowed = TRUE
    /\ reason = ""
    /\ sa = SaInit
    /\ sendCalls = 0
    /\ spoken = <<>>
    /\ wire = <<>>
    /\ bpc = "off"
    /\ braw = BareCmd("")
    /\ bwire = <<>>
    /\ vad = VadIdle
    /\ port = ser
    /\ sendRet = NotCalled
    /\ prev_telemetry = EmptyDict
    /\ mic = MicIdle
    /\ tts = [TtsIdle EXCEPT !.on = TRUE]

\* the steps of the tts_server thread
TtsLoop ==
    \/ \E ok \in BOOLEAN : TtsAccept(ok)
    \/ \E n \in 1..MaxTtsBytes : TtsRecv(n)
    \/ TtsRecvEnd
    \/ TtsTeardown

NextTts ==
    \/ TtsLoop
    \/ \E n \in 1..MaxTtsBytes : TtsSenderSend(n)
    \/ \E rst \in BOOLEAN : TtsSenderClose(rst)

SpecTts == InitTts /\ [][NextTts]_vars

\* the thread is scheduled as long as it has a step to take
SpecTtsFair == SpecTts /\ WF_vars(TtsLoop)

-----------------------------------------------------------------------------
(* vad_whisper_listener.py on its own *)

InitVad ==
    /\ script = "orchestrator"
    /\ ser = FALSE
    /\ esp32 = FALSE
    /\ now = StartTime
    /\ last_telemetry = EmptyDict
    /\ last_telem_time = 0
    /\ rpc = "exit"
    /\ line = LineEmpty
    /\ data = EmptyDict
    /\ updSeq = 0
    /\ telemId = 0
    /\ timeId = 0
    /\ pc = "stopped"
    /\ llm_out = NoReply
    /\ reply = ""
    /\ cmd = CmdNone
    /\ allowed = TRUE
    /\ reason = ""
    /\ sa = SaInit
    /\ sendCalls = 0
    /\ spoken = <<>>
    /\ wire = <<>>
    /\ bpc = "off"
    /\ braw = BareCmd("")
    /\ bwire = <<>>
    /\ \/ \E a \in {0, 5}, b \in 0..MaxHigh :
             vad = [VadIdle EXCEPT !.on = TRUE, !.lows = a, !.highs = b]
       \/ \E a \in {0, 5}, b \in 1..MaxHigh, g \in {ShortPause, LongPause},
             h \in SecondBursts :
             vad = [VadIdle EXCEPT !.on = TRUE, !.lows = a, !.highs = b,
                                   !.gap = g, !.highs2 = h]
       \/ vad = [VadIdle EXCEPT !.on = TRUE, !.highs = MaxFrames]
    /\ port = ser
    /\ sendRet = NotCalled
    /\ prev_telemetry = EmptyDict
    /\ mic = MicIdle
    /\ tts = TtsIdle

NextVad ==
    \/ AudioCallback
    \/ VadLoop
    \/ Transcribe

SpecVad == InitVad /\ [][NextVad]_vars

-----------------------------------------------------------------------------
(* Properties *)

\* safety_allows has returned a verdict
Returned == pc = "dispatch" /\ sa.done

\* the channel keys under which the running script looks for the front distance
FrontNames == IF script = "orchestrator"
              THEN {FrontKeys[i] : i \in DOMAIN FrontKeys} ELSE {"F"}

FrontStored == \E k \in FrontNames : k \in DOMAIN last_telemetry

\* the stored front distance is a number
FrontNumber == \E k \in FrontNames :
                  k \in DOMAIN last_telemetry /\ last_telemetry[k].t = "num"

FrontValue == last_telemetry[CHOOSE k \in FrontNames :
                  k \in DOMAIN last_telemetry /\ last_telemetry[k].t = "num"]

Fresh == now - last_telem_time <= TELEM_FRESH_TIMEOUT

\* C1: every command line on the actuator port, written by send_command or by
\* command_server, was evaluated by safety_allows and allowed before the write.
C1_EveryWriteGated ==
    /\ \A i \in DOMAIN wire : wire[i].interlock = "allowed"
    /\ \A i \in DOMAIN bwire : bwire[i].interlock = "allowed"

\* C2: for a forward command the verdict is allowed iff the telemetry is fresh,
\* a front distance is stored and its value is >= SAFETY_MIN_FRONT_CM.
C2_ForwardAllowedIff ==
    (Returned /\ Truthy(cmd) /\ ActOf(cmd) = "forward") =>
        (allowed <=> (/\ Fresh
                      /\ FrontStored
                      /\ FrontNumber
                      /\ FrontValue.n >= SAFETY_MIN_FRONT_CM))

\* C3: a command whose action is not forward is allowed with an empty reason,
\* whatever the telemetry state.
C3_NonForwardAllowed ==
    (Returned /\ Truthy(cmd) /\ ActOf(cmd) # "forward") => (allowed /\ reason = "")

\* C3 witness: a turn command was evaluated on stale telemetry whose front
\* distance is below the clearance.
C3_Witness ==
    /\ Returned
    /\ ActOf(cmd) = "turn"
    /\ ~Fresh
    /\ DictGet(last_telemetry, "F") = Num(5)

\* C4: the reason of a rejected forward command: stale telemetry first, whatever
\* is stored; else no front distance; else the obstacle with the measured value;
\* and the reason tells which of the three it was.
C4_ReasonOrder ==
    (Returned /\ Truthy(cmd) /\ ActOf(cmd) = "forward") =>
        /\ ~Fresh => (~allowed /\ reason = "Telemetry stale")
        /\ (Fresh /\ ~FrontStored) => (~allowed /\ reason = "No front distance")
        /\ (Fresh /\ FrontNumber /\ FrontValue.n < SAFETY_MIN_FRONT_CM) =>
              (~allowed /\ reason = "Obstacle at " \o PyFormat(FrontValue) \o " cm")
        /\ reason = "Telemetry stale" => ~Fresh
        /\ reason = "No front distance" => (Fresh /\ ~FrontNumber)
        /\ reason \notin {"", "Telemetry stale", "No front distance"} =>
              (Fresh /\ FrontNumber /\ FrontValue.n < SAFETY_MIN_FRONT_CM)

\* C4 witness: a forward command was rejected as stale although the stored front
\* distance is above the clearance.
C4_Witness ==
    /\ Returned
    /\ ActOf(cmd) = "forward"
    /\ ~Fresh
    /\ DictGet(last_telemetry, "F") = Num(20)
    /\ reason = "Telemetry stale"

\* C5: safety_allows never raises, and an allowed verdict has an empty reason.
C5_NeverRaises ==
    /\ pc # "raised_safety_allows"
    /\ (Returned /\ allowed) => reason = ""

\* a T| line with a field that has no ':' or whose value is no number
Malformed(l) ==
    /\ IsTelemetry(l)
    /\ \E i \in DOMAIN l.fields :
          ~l.fields[i].sep \/ PyFloat(l.fields[i].v).t = "err"

\* C6: while the reader handles a malformed telemetry line, the stored reading
\* and its timestamp do not change.
C6_MalformedLeavesStore ==
    [][Malformed(line) =>
          (last_telemetry' = last_telemetry /\ last_telem_time' = last_telem_time)]_vars

\* C7: the timestamp and the channel values one evaluation used were written by
\* the same telemetry update.
C7_OneUpdatePerEvaluation ==
    (Returned /\ sa.dRead # {}) => sa.dRead = {sa.tRead}

\* the cycle is over: it reached the end of the loop body or died in it
CycleOver == pc \in {"done", "raised_tts"}

\* C8: in a cycle with a command, an allowed command is sent once and the
\* reply is spoken as the model gave it; a rejected one is not written and the
\* rejection message with the reason is spoken instead.
C8_DispatchAndSpeech ==
    (CycleOver /\ Truthy(cmd) /\ sa.done) =>
        IF allowed
        THEN /\ sendCalls = 1
             /\ Len(wire) <= 1
             /\ spoken = IF reply = "" THEN <<>> ELSE <<reply>>
        ELSE /\ sendCalls = 0
             /\ wire = <<>>
             /\ spoken = <<RejectSpeech(script, reason)>>

\* C9: the loop ends only by the operator's interrupt.
C9_LoopNeverDies == pc \notin {"raised_safety_allows", "raised_tts"}

\* C10: 5 frames below the threshold, 8 above, then silence: once the episode
\* is over, and it lasted at least the minimum duration, exactly one utterance
\* has been handed on, holding the 8 frames.
C10_EightFramesEmitted ==
    (/\ vad.on /\ vad.lows = 5 /\ vad.highs = 8
     /\ vad.episodes = 1 /\ ~vad.speaking /\ vad.vpc = "get"
     /\ vad.t_end - vad.t_start >= MIN_AUDIO_MS)
    => (/\ Len(vad.transcribed) = 1
        /\ \A f \in 6..13 :
              \E j \in DOMAIN vad.transcribed[1] : vad.transcribed[1][j] = f)

\* C11: a send_command call that wrote nothing (port not open, or the write
\* failed) returns to its caller something a successful call does not return;
\* a call that wrote put the whole command line on the wire under the lock.
C11_FailureReported ==
    (pc = "tts" /\ sendCalls = 1) =>
        /\ wire = <<>> => sendRet # SendReturn(TRUE)
        /\ \A i \in DOMAIN wire : wire[i].locked /\ wire[i].text = CmdText(cmd)

\* C13: every command line on the actuator port, written by send_command or by
\* command_server, was written while the writer held the write lock.
C13_WritesUnderLock ==
    /\ \A i \in DOMAIN wire : wire[i].locked
    /\ \A i \in DOMAIN bwire : bwire[i].locked

\* the reader thread is alive on an open connection
ReaderServing == ser /\ rpc \in {"read", "store", "stamp", "backoff"}

\* C12: while the process runs, if the serial device ends up present for good,
\* the reader thread ends up alive on an open connection, reading telemetry,
\* whether the port could be opened at startup or not and whether reads failed
\* in between or not.
C12_ReaderResumes == ([]Running /\ <>[]port) => <>[]ReaderServing

\* the channel keys a telemetry line carries
Channels(l) == {Strip(l.fields[i].k) : i \in {j \in DOMAIN l.fields : l.fields[j].sep}}

\* the evaluation read the timestamp and the reading of the latest update, and
\* that update was complete and fresh when it was read
ReadLatestFresh ==
    /\ Returned
    /\ telemId >= 1
    /\ timeId = telemId
    /\ sa.tRead = telemId
    /\ sa.dRead = {telemId}
    /\ sa.nowRead - last_telem_time <= TELEM_FRESH_TIMEOUT

\* C14: once a valid telemetry line is stored, the stored reading holds exactly
\* the channels and values of that line; and a forward command evaluated on a
\* fresh latest reading without a front channel is rejected with "No front
\* distance", whatever the readings before it held.
C14_ReplacedWholesale ==
    /\ (rpc = "stamp" /\ ~Malformed(line)) =>
          /\ DOMAIN last_telemetry = Channels(line)
          /\ \A i \in DOMAIN line.fields :
                last_telemetry[Strip(line.fields[i].k)] = PyFloat(line.fields[i].v)
    /\ (ReadLatestFresh /\ ~FrontStored) => (~allowed /\ reason = NoFrontReason)

\* C14 witness: the reading before the latest one had a front distance of 20 cm;
\* the latest has none, and the forward command evaluated on it was rejected
\* with "No front distance".
C14_Witness ==
    /\ ReadLatestFresh
    /\ DictGet(prev_telemetry, "F") = Num(20)
    /\ DOMAIN last_telemetry = {"L", "R"}
    /\ ~allowed
    /\ reason = NoFrontReason

\* the timestamp the evaluation read is still the stored one, and it was older
\* than the freshness timeout when it was read
ReadExpired ==
    /\ timeId = sa.tRead
    /\ sa.nowRead - last_telem_time > TELEM_FRESH_TIMEOUT

\* C15: a forward command is rejected with "Telemetry stale" whenever the port
\* was never opened, whenever no telemetry line has been stamped yet, and
\* whenever the last stamp was older than the freshness timeout when read.
C15_DegradedIsStale ==
    (Returned /\ ActOf(cmd) = "forward") =>
        /\ ~ser => (~allowed /\ reason = StaleReason)
        /\ sa.tRead = 0 => (~allowed /\ reason = StaleReason)
        /\ ReadExpired => (~allowed /\ reason = StaleReason)

\* C15 witness: a reading with a front distance of 20 cm was stored and stamped,
\* the link then fell silent for longer than the timeout, and the forward
\* command evaluated after that was rejected as stale.
C15_Witness ==
    /\ Returned
    /\ ser
    /\ ~port
    /\ timeId >= 1
    /\ ReadExpired
    /\ DictGet(last_telemetry, "F") = Num(20)
    /\ ~allowed
    /\ reason = StaleReason

\* the frames first..last in capture order
Run(first, last) == [i \in 1..(last - first + 1) |-> first + i - 1]

\* the capture number of the frame vad_loop consumed last
LastConsumed == vad.fed - Len(vad.audio_queue)

\* C16: while speaking, the buffer holds every frame consumed since the speech
\* start, in capture order; the utterance handed to transcription is the whole
\* run from the speech start to the frame that ended the episode (that last
\* frame counted or not).
C16_EveryFrameAppended ==
    /\ vad.speaking =>
          vad.recorded_audio = Run(vad.recorded_audio[1], LastConsumed)
    /\ vad.vpc = "transcribe" =>
          \/ vad.full_audio = Run(vad.full_audio[1], LastConsumed)
          \/ vad.full_audio = Run(vad.full_audio[1], LastConsumed - 1)

\* C17: the buffer of one utterance never holds more than the cap, also when
\* every frame is above the threshold.
C17_UtteranceCapped == Len(vad.recorded_audio) <= MaxUtteranceFrames

\* episodes that have ended, and utterances that met their end
Ended == vad.episodes - (IF vad.speaking THEN 1 ELSE 0)
Finalized == Len(vad.transcribed) + vad.skipped
                + (IF vad.vpc = "transcribe" THEN 1 ELSE 0)

\* the buffered audio lasts less than MIN_AUDIO_SEC
TooShort(frames) == Len(frames) * BLOCK_SIZE * 1000 < MIN_AUDIO_MS * SAMPLE_RATE

\* every utterance handed on, being handed on, or being buffered
AllUtterances ==
    vad.transcribed
      \o (IF vad.vpc = "transcribe" THEN <<vad.full_audio>> ELSE <<>>)
      \o (IF vad.speaking THEN <<vad.recorded_audio>> ELSE <<>>)

FramesOf(u) == {u[i] : i \in DOMAIN u}

\* C18: every episode that ended was finalized once; at the end of an episode
\* the utterance is skipped iff its audio is shorter than the minimum, else
\* handed to transcription as buffered; the buffer is empty outside an episode,
\* a new episode starts from the frame that opened it, and no frame is in two
\* utterances.
C18_FinalizedOnce ==
    /\ [](Ended = Finalized)
    /\ [](~vad.speaking => vad.recorded_audio = <<>>)
    /\ [](\A i, j \in DOMAIN AllUtterances :
             i # j => FramesOf(AllUtterances[i]) \cap FramesOf(AllUtterances[j]) = {})
    /\ [][(vad.speaking /\ ~vad'.speaking) =>
             IF TooShort(vad.recorded_audio)
             THEN /\ vad'.skipped = vad.skipped + 1
                  /\ vad'.vpc = "get"
                  /\ vad'.transcribed = vad.transcribed
             ELSE /\ vad'.skipped = vad.skipped
                  /\ vad'.vpc = "transcribe"
                  /\ vad'.full_audio = vad.recorded_audio]_vars
    /\ [][(vad.vpc = "transcribe" /\ vad'.vpc # "transcribe") =>
             vad'.transcribed = Append(vad.transcribed, vad.full_audio)]_vars
    /\ [][(~vad.speaking /\ vad'.speaking) =>
             vad'.recorded_audio = <<Head(vad.audio_queue)>>]_vars

\* C18 witness: two episodes have ended, the first skipped as too short (8
\* voiced frames), the second handed to transcription (11 voiced frames).
C18_Witness ==
    /\ vad.highs = 8
    /\ vad.gap = LongPause
    /\ vad.highs2 = 11
    /\ vad.episodes = 2
    /\ ~vad.speaking
    /\ vad.vpc = "get"
    /\ vad.skipped = 1
    /\ Len(vad.transcribed) = 1
    /\ Len(vad.transcribed[1]) = 11

\* C19: the capture queue never holds more frames than its capacity, also while
\* vad_loop is busy in transcribe.
C19_QueueBounded == Len(vad.audio_queue) <= QueueCapacity

\* the sockets on which a sendall has raised
FailedConns == DOMAIN mic.failedAt

\* C20: after a sendall has raised on a socket no frame goes out on that socket,
\* the socket is closed and a new one is created; a frame goes out only in the
\* callback that captured it, so the frames captured in between are never sent,
\* and no frame goes out twice.
C20_ResetAfterWriteFailure ==
    /\ [](\A i \in DOMAIN mic.sent :
             mic.sent[i].conn \in FailedConns =>
                 mic.sent[i].frame < mic.failedAt[mic.sent[i].conn])
    /\ [](\A i, j \in DOMAIN mic.sent : i < j => mic.sent[i].frame < mic.sent[j].frame)
    /\ [][mic'.sent # mic.sent =>
             /\ ~mic.stop
             /\ mic'.frame = mic.frame + 1
             /\ mic'.sent = Append(mic.sent, [conn |-> mic.conn, frame |-> mic'.frame])]_vars
    /\ \A c \in 1..MaxConns :
          (c \in FailedConns) ~> (c \in mic.closed /\ mic.conn > c)

\* C20 witness: a sendall raised on the first socket, the socket was closed, a
\* frame captured during the outage was dropped, and a later frame went out on
\* the second socket.
C20_Witness ==
    /\ 1 \in FailedConns
    /\ 1 \in mic.closed
    /\ \E i \in DOMAIN mic.sent :
          /\ mic.sent[i].conn = 2
          /\ mic.sent[i].frame > mic.failedAt[1] + 1
    /\ \E i \in DOMAIN mic.sent : mic.sent[i].conn = 1

\* this step puts a forward command line on the actuator port
ForwardWritten == Len(wire') = Len(wire) + 1 /\ ActOf(cmd) = "forward"

\* C23: at the instant a forward command line is written, the stored telemetry
\* is fresh and its front distance is a number >= SAFETY_MIN_FRONT_CM, whatever
\* the reader thread stored between the verdict and the write.
C23_ApprovalStillValid ==
    [][ForwardWritten =>
          (Fresh /\ FrontNumber /\ FrontValue.n >= SAFETY_MIN_FRONT_CM)]_vars

\* C21: the playback of a stream is ended only once the far end has closed it;
\* the samples written to the output stream are the samples sent, in order; and
\* when the far end has closed in order, every whole sample it sent has been
\* written, however recv cut the byte stream.
C21_SamplesReassembled ==
    /\ tts.tpc = "teardown" => tts.senderClosed
    /\ \A j \in DOMAIN tts.played : tts.played[j] = j
    /\ (/\ tts.tpc \in {"teardown", "accept"}
        /\ tts.conn >= 1
        /\ tts.senderClosed
        /\ ~tts.reset)
       => tts.played = Run(1, tts.sending \div SAMPLE_BYTES)

\* C22: at most one connection is being served and the output stream is open
\* only while one is; the thread ends only where the output stream is created,
\* never in the receive loop or after it; and once the far end has closed a
\* connection, at whatever point of its speech and in order or by reset, the
\* output stream and the connection get closed and the server is back at accept.
C22_EarlyCloseServed ==
    /\ [](tts.conn - tts.served <= 1)
    /\ [](tts.streamOpen <=> tts.tpc \in {"recv", "teardown"})
    /\ [](tts.tpc = "accept" => ~tts.connOpen)
    /\ [][tts'.tpc = "raised" => tts.tpc = "accept"]_vars
    /\ \A c \in 1..MaxTtsConns :
          (tts.conn = c /\ tts.tpc = "recv" /\ tts.senderClosed)
              ~> (tts.tpc = "accept" /\ tts.served = c
                    /\ ~tts.streamOpen /\ ~tts.connOpen)

\* C22 witness: a first connection was closed by the far end before the end of
\* its speech and torn down, and a second one is now being served.
C22_Witness ==
    /\ tts.early = 1
    /\ tts.served = 1
    /\ tts.conn = 2
    /\ tts.tpc = "recv"
    /\ tts.streamOpen
    /\ ~tts.senderClosed

====
